---- MODULE Spec2Model ----
(***************************************************************************)
(* Model of the @oxog/uid ID generation engine: the UUID v4/v7 codec, the  *)
(* ULID codec with its monotonic variant, the Snowflake generator with its *)
(* module-level state, and the base codec they share.                      *)
(*                                                                         *)
(* Strings are sequences of one-character strings.  JavaScript BigInt      *)
(* values (and millisecond timestamps, which exceed 32 bits) are sequences *)
(* of base-256 digits, most significant first, without leading zeros; the  *)
(* value zero is the empty sequence.                                       *)
(***************************************************************************)
EXTENDS Integers, Sequences, FiniteSets, TLC

VARIABLES
    clock,          \* the reading of Date.now() (ms)
    state,          \* snowflake/index.ts: module-level SnowflakeState
    apis,           \* kernels whose registry holds the snowflake API
    configuredAs,   \* per kernel: the config its own configure() call accepted
    ret,            \* outcome of the latest snowflake API call
    lastId,         \* value of the ID returned by the latest successful call
    issued,         \* IDs returned so far with the timestamp field of the
                    \* latest one, as a set of disjoint ranges [lo, hi]
    issuedCount,    \* number of calls that returned the IDs of `issued`
    calls,          \* number of generation calls made so far
    lastTime,       \* ulid: module-level `let lastTime`
    lastRandom,     \* ulid: module-level `let lastRandom`
    ulidLast,       \* latest ULID call: its inputs and the string returned
    ulidPrev,       \* the ULID call before it
    uuidLast,       \* latest UUID call: its inputs and the string returned
    uuidPrev,       \* the UUID call before it
    cuidLast,       \* latest cuid2 call: its inputs and outcome
    codecLast,      \* latest encodeBase/decodeBase round trip
    nanoLast,       \* latest nanoid call: its inputs and outcome
    shortLast,      \* latest short call: its inputs and outcome
    plugins,        \* kernel.ts: this.plugins, the plugin objects in insertion order
    kernelApis,     \* kernel.ts: this.apis, per API name the plugin that registered it
    hookCalls,      \* per hook and plugin object: how often the kernel called it
    destroying,     \* the pending kernel.destroy() call and its Map iterator
    kernelRet,      \* outcome of the latest kernel call
    kernelOps       \* number of use, unregister and destroy calls made so far

snowVars == <<state, apis, configuredAs, ret, lastId, issued, issuedCount, calls>>
ulidVars == <<lastTime, lastRandom, ulidLast, ulidPrev>>
uuidVars == <<uuidLast, uuidPrev>>
genVars == <<cuidLast, codecLast, nanoLast, shortLast>>
kernVars == <<plugins, kernelApis, hookCalls, destroying, kernelRet, kernelOps>>
vars == <<clock, snowVars, ulidVars, uuidVars, genVars, kernVars>>

Null == [kind |-> "null"]
Undefined == [kind |-> "undefined"]
\* An optional number argument that is present.
Num(v) == [kind |-> "number", value |-> v]
\* A string and a BigInt returned to the caller.
Str(v) == [kind |-> "string", value |-> v]
BigIntOf(v) == [kind |-> "bigint", value |-> v]
\* A Date, by its getTime().
Date(v) == [kind |-> "date", value |-> v]
\* A Uint8Array returned to the caller.
Bytes(v) == [kind |-> "bytes", value |-> v]
\* A thrown UidError, by its code.
UidError(code) == [kind |-> "error", code |-> code]

(***************************************************************************)
(* Bounds of the model.                                                    *)
(***************************************************************************)
MaxNow == 2
MaxCalls == 4
MaxCounter == 2
MaxBytes == 3
MaxRefills == 1
MaxChars == 3
MaxOps == 5
LongBytes == 64

(***************************************************************************)
(* JavaScript strings and numbers.                                         *)
(***************************************************************************)
DIGITS == <<"0", "1", "2", "3", "4", "5", "6", "7", "8", "9">>
UPPER == <<"A", "B", "C", "D", "E", "F", "G", "H", "I", "J", "K", "L", "M",
           "N", "O", "P", "Q", "R", "S", "T", "U", "V", "W", "X", "Y", "Z">>
LOWER == <<"a", "b", "c", "d", "e", "f", "g", "h", "i", "j", "k", "l", "m",
           "n", "o", "p", "q", "r", "s", "t", "u", "v", "w", "x", "y", "z">>
HEX == <<"0", "1", "2", "3", "4", "5", "6", "7", "8", "9",
         "a", "b", "c", "d", "e", "f">>

\* while (cond(s)) s = body(s), for a loop of at most `fuel` iterations.  The
\* iterations are split in halves, which keeps the depth of the evaluation
\* logarithmic in their number.
RECURSIVE While(_, _, _, _)
While(cond(_), body(_), s, fuel) ==
    IF fuel = 0 \/ ~cond(s) THEN s
    ELSE IF fuel = 1 THEN body(s)
    ELSE While(cond, body, While(cond, body, s, fuel \div 2), fuel - (fuel \div 2))

Min(a, b) == IF a < b THEN a ELSE b
Max(a, b) == IF a > b THEN a ELSE b

\* String.prototype.indexOf on a single character: 0-based, -1 when absent.
IndexOf(s, c) ==
    IF \E i \in 1..Len(s) : s[i] = c
    THEN (CHOOSE i \in 1..Len(s) : s[i] = c /\ \A j \in 1..(i - 1) : s[j] # c) - 1
    ELSE -1

\* UTF-16 code unit of a character.
CodeUnit(c) ==
    IF c = "-" THEN 45
    ELSE IF IndexOf(DIGITS, c) >= 0 THEN 48 + IndexOf(DIGITS, c)
    ELSE IF IndexOf(UPPER, c) >= 0 THEN 65 + IndexOf(UPPER, c)
    ELSE IF c = "_" THEN 95
    ELSE 97 + IndexOf(LOWER, c)

\* String.prototype.toUpperCase on a single character.
ToUpperCase(c) ==
    IF IndexOf(LOWER, c) >= 0 THEN UPPER[IndexOf(LOWER, c) + 1] ELSE c

\* The < operator on strings: lexicographic by code unit, a proper prefix
\* is smaller.
StrLess(a, b) ==
    \E i \in 1..Len(b) :
        /\ i <= Len(a) + 1
        /\ \A j \in 1..(i - 1) : a[j] = b[j]
        /\ (i <= Len(a) => CodeUnit(a[i]) < CodeUnit(b[i]))

\* String.prototype.slice(from, to), 0-based, end exclusive, clipped.
Slice(s, from, to) == SubSeq(s, from + 1, Min(to, Len(s)))

\* String.prototype.padEnd(n, c).
PadEnd(s, n, c) == s \o [i \in 1..(n - Len(s)) |-> c]

\* String.fromCharCode(i) for a code unit i below 4096, written x00 .. xff
\* and x100 .. xfff.
FromCharCode(i) ==
    IF i < 256 THEN "x" \o HEX[(i \div 16) + 1] \o HEX[(i % 16) + 1]
    ELSE "x" \o HEX[(i \div 256) + 1] \o HEX[((i \div 16) % 16) + 1] \o HEX[(i % 16) + 1]

\* String.prototype.padStart(n, c).
RECURSIVE PadStart(_, _, _)
PadStart(s, n, c) == IF Len(s) >= n THEN s ELSE PadStart(<<c>> \o s, n, c)

\* Number.prototype.toString(radix) for a non-negative integer.
RECURSIVE NumToString(_, _)
NumToString(n, radix) ==
    IF n < radix THEN <<HEX[n + 1]>>
    ELSE NumToString(n \div radix, radix) \o <<HEX[(n % radix) + 1]>>

\* parseInt(s, 16) on a string of hexadecimal digits of either case.
RECURSIVE ParseInt16(_)
ParseInt16(s) ==
    IF s = <<>> THEN 0
    ELSE LET c == s[Len(s)]
             lc == IF IndexOf(UPPER, c) >= 0 THEN LOWER[IndexOf(UPPER, c) + 1] ELSE c
         IN ParseInt16(SubSeq(s, 1, Len(s) - 1)) * 16 + IndexOf(HEX, lc)

\* The & and | operators on integers (two's complement, any width).
RECURSIVE BitAnd(_, _)
BitAnd(a, b) ==
    IF a = 0 \/ b = 0 THEN 0
    ELSE IF a = -1 THEN b
    ELSE IF b = -1 THEN a
    ELSE (a % 2) * (b % 2) + 2 * BitAnd(a \div 2, b \div 2)

RECURSIVE BitOr(_, _)
BitOr(a, b) ==
    IF a = 0 THEN b
    ELSE IF b = 0 THEN a
    ELSE IF a = -1 \/ b = -1 THEN -1
    ELSE (IF a % 2 = 1 \/ b % 2 = 1 THEN 1 ELSE 0) + 2 * BitOr(a \div 2, b \div 2)

RECURSIVE Pow2(_)
Pow2(k) == IF k = 0 THEN 1 ELSE 2 * Pow2(k - 1)

\* BigInt.prototype.toString() of a value that fits the model's integers.
RECURSIVE DecimalDigits(_)
DecimalDigits(n) ==
    IF n < 10 THEN <<DIGITS[n + 1]>>
    ELSE DecimalDigits(n \div 10) \o <<DIGITS[(n % 10) + 1]>>

BigIntToString(n) == IF n < 0 THEN <<"-">> \o DecimalDigits(0 - n) ELSE DecimalDigits(n)

\* BigInt(s) of a decimal string.
RECURSIVE ParseDigits(_)
ParseDigits(s) ==
    IF s = <<>> THEN 0
    ELSE ParseDigits(SubSeq(s, 1, Len(s) - 1)) * 10 + IndexOf(DIGITS, s[Len(s)])

StringToBigInt(s) ==
    IF s # <<>> /\ s[1] = "-" THEN 0 - ParseDigits(Tail(s)) ELSE ParseDigits(s)

(***************************************************************************)
(* BigInt arithmetic on base-256 digit sequences.                          *)
(***************************************************************************)
RECURSIVE BigNorm(_)
BigNorm(s) ==
    IF s = <<>> THEN <<>>
    ELSE IF s[1] = 0 THEN BigNorm(Tail(s))
    ELSE s

\* BigInt(n) for a small non-negative number.
RECURSIVE NatToBig(_)
NatToBig(n) == IF n = 0 THEN <<>> ELSE Append(NatToBig(n \div 256), n % 256)

\* a < b
BigLess(a, b) ==
    \/ Len(a) < Len(b)
    \/ /\ Len(a) = Len(b)
       /\ \E i \in 1..Len(a) :
            /\ a[i] < b[i]
            /\ \A j \in 1..(i - 1) : a[j] = b[j]

\* Quotient and remainder of n by a small divisor d: long division, one
\* digit per step from the most significant one.
BigDivStep(n, d, s) ==
    LET cur == s.rem * 256 + n[s.i]
    IN [i |-> s.i + 1, rem |-> cur % d, q |-> Append(s.q, cur \div d)]

BigDivMod(n, d) ==
    LET s == While(LAMBDA t : t.i <= Len(n), LAMBDA t : BigDivStep(n, d, t),
                   [i |-> 1, rem |-> 0, q |-> <<>>], Len(n))
    IN [q |-> BigNorm(s.q), r |-> s.rem]

\* n * m + a for small m and a: one digit per step from the least
\* significant one, then the digits of the last carry.
BigMulStep(n, m, s) ==
    LET cur == n[s.i] * m + s.carry
    IN [i |-> s.i - 1, carry |-> cur \div 256, acc |-> <<cur % 256>> \o s.acc]

BigMulAdd(n, m, a) ==
    LET s == While(LAMBDA t : t.i > 0, LAMBDA t : BigMulStep(n, m, t),
                   [i |-> Len(n), carry |-> a, acc |-> <<>>], Len(n))
    IN BigNorm(NatToBig(s.carry) \o s.acc)

\* (n << k) | v for 0 <= v < 2^k.
BigShlOr(n, k, v) == BigMulAdd(n, Pow2(k), v)

\* n >> k
RECURSIVE BigShr(_, _)
BigShr(n, k) ==
    IF k = 0 \/ n = <<>> THEN n
    ELSE IF k >= 8 THEN BigShr(SubSeq(n, 1, Len(n) - 1), k - 8)
    ELSE BigDivMod(n, Pow2(k)).q

\* Number(n & mask) for a mask 2^j - 1 of at most 8 bits.
BigAndSmall(n, mask) == IF n = <<>> THEN 0 ELSE BitAnd(n[Len(n)], mask)

(***************************************************************************)
(* The random source and the inputs drawn from it.                         *)
(***************************************************************************)
\* kernel.random(n): n bytes.  The draws are the all-0xff draw, a draw with
\* a leading zero byte and the all-zero draw.
RandomDraws(n) == { [i \in 1..n |-> IF i <= z THEN 0 ELSE 255] : z \in {0, 1, n} }

\* Math.floor(Math.random() * n): the least and the greatest index.
RandomIndexes(n) == {0, n - 1}

\* A present-day reading of Date.now(): 1609459200000 (2021-01-01), the
\* origin of the readings whose magnitude matters.
PresentDay == <<1, 118, 187, 62, 112, 0>>

\* Caller-supplied millisecond timestamps in [0, 2^48).
TimestampSamples ==
    { <<>>, <<1>>, <<32>>, <<1, 0>>,
      <<1, 118, 187, 62, 112, 0>>, <<255, 255, 255, 255, 255, 255>> }

(***************************************************************************)
(* utils.ts                                                                *)
(***************************************************************************)
\* toHex(bytes)
RECURSIVE toHex(_)
toHex(bytes) ==
    IF bytes = <<>> THEN <<>>
    ELSE PadStart(NumToString(Head(bytes), 16), 2, "0") \o toHex(Tail(bytes))

\* bytesToNumber(bytes): num = (num << 8n) | BigInt(byte), left to right.
bytesToNumberFrom(bytes, i, num) ==
    While(LAMBDA t : t.i <= Len(bytes),
          LAMBDA t : [i |-> t.i + 1, num |-> BigShlOr(t.num, 8, bytes[t.i])],
          [i |-> i, num |-> num], Len(bytes)).num

bytesToNumber(bytes) == bytesToNumberFrom(bytes, 1, <<>>)

\* validateAlphabet(alphabet): TRUE when it does not throw.
validateAlphabet(alphabet) ==
    /\ Len(alphabet) >= 2
    /\ Cardinality({alphabet[i] : i \in 1..Len(alphabet)}) = Len(alphabet)

\* validateSize(size, min, max): TRUE when it does not throw.  Every size
\* of the model is an integer.
validateSize(size, min, max) == ~(size < min \/ size > max)

\* The loop of encodeBase with push in place of unshift.
encodeBaseLoopPush(num, alphabet, result) ==
    While(LAMBDA t : t.num # <<>>,
          LAMBDA t : LET dm == BigDivMod(t.num, Len(alphabet))
                     IN [num |-> dm.q, result |-> Append(t.result, alphabet[dm.r + 1])],
          [num |-> num, result |-> result], 8 * Len(num)).result

\* The loop of encodeBase:
\* while (num > 0n) { unshift(alphabet[num % base]); num /= base }
\* A number of n bytes has at most 8 * n digits in any base.
encodeBaseLoop(num, alphabet, result) ==
    While(LAMBDA t : t.num # <<>>,
          LAMBDA t : LET dm == BigDivMod(t.num, Len(alphabet))
                     IN [num |-> dm.q, result |-> <<alphabet[dm.r + 1]>> \o t.result],
          [num |-> num, result |-> result], 8 * Len(num)).result

\* encodeBase(bytes, alphabet): the string, or the error validateAlphabet
\* throws.
encodeBase(bytes, alphabet) ==
    IF ~validateAlphabet(alphabet) THEN UidError("INVALID_ALPHABET")
    ELSE IF Len(bytes) = 0 THEN Str(<<>>)
    ELSE Str(encodeBaseLoop(bytesToNumber(bytes), alphabet, <<>>))

\* Math.ceil(Math.log2(n)) for n >= 1.
RECURSIVE CeilLog2From(_, _)
CeilLog2From(n, e) == IF Pow2(e) >= n THEN e ELSE CeilLog2From(n, e + 1)

CeilLog2(n) == CeilLog2From(n, 0)

\* The loop of decodeBase over the characters of str: the number, or the
\* error of a character outside the alphabet.
\* for (const char of str) { idx = charIndex.get(char); num = num * base + idx }
decodeBaseLoop(str, alphabet, i, num) ==
    LET s == While(LAMBDA t : t.i <= Len(str) /\ ~t.thrown,
                   LAMBDA t : LET idx == IndexOf(alphabet, str[t.i])
                              IN IF idx = -1 THEN [t EXCEPT !.thrown = TRUE]
                                 ELSE [i |-> t.i + 1, thrown |-> FALSE,
                                       num |-> BigMulAdd(t.num, Len(alphabet), idx)],
                   [i |-> i, thrown |-> FALSE, num |-> num], Len(str))
    IN IF s.thrown THEN UidError("INVALID_ALPHABET") ELSE BigIntOf(s.num)

\* decodeBase(str, alphabet): the bytes, or the error thrown.  The digits of
\* num are the bytes unshifted by the while loop; they are then padded
\* with zero bytes up to byteLength.
decodeBase(str, alphabet) ==
    IF ~validateAlphabet(alphabet) THEN UidError("INVALID_ALPHABET")
    ELSE LET num == decodeBaseLoop(str, alphabet, 1, <<>>)
             bitLength == Len(str) * CeilLog2(Len(alphabet))
             byteLength == (bitLength + 7) \div 8
         IN IF num.kind = "error" THEN num
            ELSE IF num.value = <<>> THEN Bytes([i \in 1..byteLength |-> 0])
            ELSE Bytes([i \in 1..Max(0, byteLength - Len(num.value)) |-> 0] \o num.value)

(***************************************************************************)
(* plugins/uuid                                                            *)
(***************************************************************************)
\* formatUuid(bytes)
formatUuid(bytes) ==
    LET hex == toHex(bytes)
    IN Slice(hex, 0, 8) \o <<"-">> \o Slice(hex, 8, 12) \o <<"-">> \o
       Slice(hex, 12, 16) \o <<"-">> \o Slice(hex, 16, 20) \o <<"-">> \o
       Slice(hex, 20, 32)

\* generateV4(kernel), random being the 16 bytes of kernel.random(16).
\* Byte k of the source is element k + 1 here.
generateV4(random) ==
    formatUuid([random EXCEPT
        ![7] = BitOr(BitAnd(random[7], 15), 64),
        ![9] = BitOr(BitAnd(random[9], 63), 128)])

\* The loop of generateV7 that stores the timestamp:
\* for (i = 5; i >= 0; i--) bytes[i] = Number((ts >> BigInt(i * 8)) & 0xffn)
v7TimestampByte(ts, i) == BigAndSmall(BigShr(ts, i * 8), 255)

\* generateV7(kernel, timestamp): timestamp is Undefined or a number, now is
\* the reading of Date.now(), random the 10 bytes of kernel.random(10).
generateV7(random, timestamp, now) ==
    LET ts == IF timestamp = Undefined THEN now ELSE timestamp.value
        b0 == [i \in 1..16 |-> IF i <= 6 THEN v7TimestampByte(ts, i - 1) ELSE 0]
        b1 == [b0 EXCEPT ![7] = BitOr(BitAnd(b0[7], 15), 112),
                         ![9] = BitOr(BitAnd(b0[9], 63), 128)]
        b2 == [i \in 1..16 |->
                 IF i = 7 THEN BitOr(BitAnd(b1[7], 240), BitAnd(random[1], 15))
                 ELSE IF i = 8 THEN random[2]
                 ELSE IF i = 9 THEN BitOr(BitAnd(b1[9], 192), BitAnd(random[3], 63))
                 ELSE IF i >= 10 THEN random[i - 6]
                 ELSE b1[i]]
    IN formatUuid(b2)

\* isValidUuid(id): /^[0-9a-f]{8}-[0-9a-f]{4}-[0-9a-f]{4}-[0-9a-f]{4}-[0-9a-f]{12}$/i
isValidUuid(id) ==
    /\ Len(id) = 36
    /\ \A i \in 1..36 :
         IF i \in {9, 14, 19, 24} THEN id[i] = "-"
         ELSE \/ IndexOf(HEX, id[i]) >= 0
              \/ id[i] \in {"A", "B", "C", "D", "E", "F"}

\* The timestamp loop of parseUuid:
\* for (i = 0; i < 6; i++) timestamp = (timestamp << 8n) | BigInt(bytes[i])
RECURSIVE parseTimestampFrom(_, _, _)
parseTimestampFrom(bytes, i, timestamp) ==
    IF i >= 6 THEN timestamp
    ELSE parseTimestampFrom(bytes, i + 1, BigShlOr(timestamp, 8, bytes[i + 1]))

\* parseUuid(id): Null, or the parsed record; timestamp is a Date, or
\* Undefined when the field is not set.
parseUuid(id) ==
    IF ~isValidUuid(id) THEN Null
    ELSE LET hex == SelectSeq(id, LAMBDA c : c # "-")
             bytes == [i \in 1..16 |-> ParseInt16(Slice(hex, (i - 1) * 2, (i - 1) * 2 + 2))]
             version == BitAnd(bytes[7] \div 16, 15)
             variantBits == bytes[9] \div 64
             variant == IF variantBits = 0 THEN "NCS"
                        ELSE IF variantBits = 2 THEN "Microsoft"
                        ELSE IF variantBits = 3 THEN "Future"
                        ELSE "RFC4122"
         IN [kind |-> "parsed", version |-> version, variant |-> variant,
             bytes |-> bytes,
             timestamp |-> IF version = 7
                           THEN Date(parseTimestampFrom(bytes, 0, <<>>))
                           ELSE Undefined]

(***************************************************************************)
(* UUID calls.                                                             *)
(***************************************************************************)
\* uuid() / uuid.v4()
UuidV4 ==
    \E random \in RandomDraws(16) :
        /\ uuidLast' = [kind |-> "v4", timestamp |-> <<>>,
                        id |-> generateV4(random)]
        /\ uuidPrev' = uuidLast
        /\ UNCHANGED <<clock, snowVars, ulidVars, genVars, kernVars>>

\* uuid.v7(options)
UuidV7 ==
    \E random \in RandomDraws(10),
       timestamp \in {Num(t) : t \in TimestampSamples} \cup {Undefined} :
        /\ uuidLast' = [kind |-> "v7",
                        timestamp |-> IF timestamp = Undefined THEN NatToBig(clock)
                                      ELSE timestamp.value,
                        id |-> generateV7(random, timestamp, NatToBig(clock))]
        /\ uuidPrev' = uuidLast
        /\ UNCHANGED <<clock, snowVars, ulidVars, genVars, kernVars>>


(***************************************************************************)
(* plugins/ulid                                                            *)
(***************************************************************************)
CROCKFORD_BASE32 ==
    <<"0", "1", "2", "3", "4", "5", "6", "7", "8", "9", "A", "B", "C", "D",
      "E", "F", "G", "H", "J", "K", "M", "N", "P", "Q", "R", "S", "T", "V",
      "W", "X", "Y", "Z">>

\* encodeTime(timestamp, length):
\* for (i = length - 1; i >= 0; i--) chars.unshift(ALPHABET[(ts >> 5i) & 0x1f])
RECURSIVE encodeTimeLoop(_, _, _)
encodeTimeLoop(ts, i, chars) ==
    IF i < 0 THEN chars
    ELSE encodeTimeLoop(ts, i - 1,
             <<CROCKFORD_BASE32[BigAndSmall(BigShr(ts, i * 5), 31) + 1]>> \o chars)

encodeTime(timestamp, length) == encodeTimeLoop(timestamp, length - 1, <<>>)

\* decodeTime(timeStr): characters outside the alphabet are skipped.
RECURSIVE decodeTimeLoop(_, _, _)
decodeTimeLoop(timeStr, i, timestamp) ==
    IF i >= Len(timeStr) THEN timestamp
    ELSE LET index == IndexOf(CROCKFORD_BASE32, ToUpperCase(timeStr[i + 1]))
         IN decodeTimeLoop(timeStr, i + 1,
                IF index = -1 THEN timestamp ELSE BigShlOr(timestamp, 5, index))

decodeTime(timeStr) == decodeTimeLoop(timeStr, 0, <<>>)

\* generateUlid(kernel, timestamp): timestamp is Undefined or a number, now
\* the reading of Date.now(), timeBytes the 10 bytes of kernel.random(10).
\* encodeBase returns a string: CROCKFORD_BASE32 passes validateAlphabet.
generateUlid(timeBytes, timestamp, now) ==
    LET ts == IF timestamp = Undefined THEN now ELSE timestamp.value
    IN encodeTime(ts, 10) \o Slice(encodeBase(timeBytes, CROCKFORD_BASE32).value, 0, 16)

\* The increment loop of generateMonotonicUlid:
\* for (i = length - 1; i >= 0 && carry > 0; i--) { val = bytes[i] + carry; ... }
RECURSIVE incrementBytes(_, _, _)
incrementBytes(bytes, i, carry) ==
    IF i < 0 \/ carry = 0 THEN bytes
    ELSE LET val == bytes[i + 1] + carry
         IN incrementBytes([bytes EXCEPT ![i + 1] = BitAnd(val, 255)], i - 1, val \div 256)

\* extractTimestamp(id)
extractTimestamp(id) == Date(decodeTime(Slice(id, 0, 10)))

\* isValidUlid(id): length 26 and /^[0123456789ABCDEFGHJKMNPQRSTVWXYZ]{26}$/i
isValidUlid(id) ==
    /\ Len(id) = 26
    /\ \A i \in 1..Len(id) : IndexOf(CROCKFORD_BASE32, ToUpperCase(id[i])) >= 0

(***************************************************************************)
(* ULID calls.                                                             *)
(***************************************************************************)
\* kernel.use(ulidPlugin) on a new kernel: install resets the module state
\* and builds a new API.
UlidInstall ==
    /\ lastTime' = 0
    /\ lastRandom' = 0
    /\ ulidLast' = Null
    /\ ulidPrev' = Null
    /\ UNCHANGED <<clock, snowVars, uuidVars, genVars, kernVars>>

\* ulid() / ulid({timestamp})
Ulid ==
    \E timeBytes \in RandomDraws(10),
       timestamp \in {Num(t) : t \in TimestampSamples} \cup {Undefined} :
        /\ ulidLast' = [kind |-> "ulid",
                        timestamp |-> IF timestamp = Undefined THEN NatToBig(clock)
                                      ELSE timestamp.value,
                        id |-> generateUlid(timeBytes, timestamp, NatToBig(clock))]
        /\ ulidPrev' = ulidLast
        /\ UNCHANGED <<clock, lastTime, lastRandom, snowVars, uuidVars, genVars, kernVars>>

\* ulid.monotonic(): the getState closure of install, then
\* generateMonotonicUlid.  lastRandom counts the calls of one millisecond.
UlidMonotonic ==
    \E random \in RandomDraws(10) :
        LET now == clock
            lr == IF now # lastTime THEN 0 ELSE lastRandom
            lt == IF now # lastTime THEN now ELSE lastTime
            randomBytes == IF now = lt /\ lr > 0
                           THEN incrementBytes(random, Len(random) - 1, 1)
                           ELSE random
        IN /\ lr < MaxCounter
           /\ lastTime' = now
           /\ lastRandom' = lr + 1
           /\ ulidLast' = [kind |-> "monotonic",
                           timestamp |-> NatToBig(now),
                           random |-> randomBytes,
                           id |-> encodeTime(NatToBig(now), 10) \o
                                  Slice(encodeBase(randomBytes, CROCKFORD_BASE32).value,
                                        0, 16)]
           /\ ulidPrev' = ulidLast
           /\ UNCHANGED <<clock, snowVars, uuidVars, genVars, kernVars>>

\* Strings a caller passes to ulid.isValid and ulid.timestamp: the ULID of
\* the tests, in upper and in lower case, with one character replaced, one
\* character short, one long, and the empty string.
UlidSample ==
    <<"0", "1", "A", "R", "Z", "3", "N", "D", "E", "K", "T", "S", "V", "4", "R",
      "R", "F", "F", "Q", "6", "9", "G", "5", "F", "A", "V">>

UlidStrings ==
    { UlidSample, [i \in 1..26 |-> IF IndexOf(UPPER, UlidSample[i]) >= 0
                                   THEN LOWER[IndexOf(UPPER, UlidSample[i]) + 1]
                                   ELSE UlidSample[i]],
      SubSeq(UlidSample, 1, 25), Append(UlidSample, "0"), <<>> }
    \cup { [UlidSample EXCEPT ![p] = c] :
             p \in {1, 2, 10, 11, 26},
             c \in {"I", "L", "O", "U", "i", "l", "o", "u", "-", "_", "z", "7"} }

\* ulid.isValid(id)
UlidIsValid ==
    /\ ulidLast.kind = "args"
    /\ ulidLast' = [kind |-> "isValid", id |-> ulidLast.id,
                    result |-> isValidUlid(ulidLast.id)]
    /\ UNCHANGED <<clock, lastTime, lastRandom, ulidPrev, snowVars, uuidVars, genVars, kernVars>>

\* ulid.timestamp(id)
UlidTimestamp ==
    /\ ulidLast.kind = "args"
    /\ ulidLast' = [kind |-> "timestamp", id |-> ulidLast.id,
                    result |-> extractTimestamp(ulidLast.id)]
    /\ UNCHANGED <<clock, lastTime, lastRandom, ulidPrev, snowVars, uuidVars, genVars, kernVars>>

(***************************************************************************)
(* plugins/snowflake                                                       *)
(***************************************************************************)
\* The kernels of the multi-node example and the configuration each passes
\* to its own snowflake.configure.  Configurations carry an explicit epoch.
Kernels == {"node1", "node2"}

NodeConfig ==
    [node1 |-> [workerId |-> 1, datacenterId |-> 1, epoch |-> 0],
     node2 |-> [workerId |-> 2, datacenterId |-> 1, epoch |-> 0]]

\* Further configurations a caller may pass: the corners of the id ranges,
\* an epoch in the past and an epoch after every reading of the clock.
SnowflakeConfigs ==
    { [workerId |-> 0, datacenterId |-> 0, epoch |-> 0],
      [workerId |-> 31, datacenterId |-> 31, epoch |-> 0],
      [workerId |-> 5, datacenterId |-> 3, epoch |-> 1],
      [workerId |-> 1, datacenterId |-> 1, epoch |-> 100] }

\* Configurations outside the accepted range.
InvalidConfigs ==
    { [workerId |-> 32, datacenterId |-> 1, epoch |-> 0],
      [workerId |-> 1, datacenterId |-> -1, epoch |-> 0] }

\* validateSnowflakeConfig with the upper bound of workerId off by one.
validateSnowflakeConfigLoose(config) ==
    /\ ~(config.workerId < 0 \/ config.workerId > 32)
    /\ ~(config.datacenterId < 0 \/ config.datacenterId > 31)

\* validateSnowflakeConfig(config): TRUE when it does not throw.  Every
\* workerId and datacenterId of the model is an integer.
validateSnowflakeConfig(config) ==
    /\ ~(config.workerId < 0 \/ config.workerId > 31)
    /\ ~(config.datacenterId < 0 \/ config.datacenterId > 31)

\* The clock check with a tolerance of one millisecond.
clockMovedBackwardsLenient(now) == now + 1 < state.lastTime

\* generateSnowflake: if (now < state.lastTime) throw CLOCK_BACKWARDS
clockMovedBackwards(now) == now < state.lastTime

\* generateSnowflake: the sequence the call leaves in state.sequence.
nextSequence(now) ==
    IF now = state.lastTime THEN BitAnd(state.sequence + 1, 4095) ELSE 0

\* buildSnowflake with the datacenter and worker fields exchanged.
buildSnowflakeSwapped(config, now, sequence) ==
    LET timestamp == now - config.epoch
        datacenterId == BitAnd(config.datacenterId, 31)
        workerId == BitAnd(config.workerId, 31)
    IN BitOr(BitOr(BitOr(timestamp * Pow2(22), workerId * Pow2(17)),
                   datacenterId * Pow2(12)), sequence)

\* generateSnowflake: the value built from the reading `now` of Date.now()
\* taken at entry and the sequence.
\* (timestamp << 22n) | (datacenterId << 17n) | (workerId << 12n) | sequence
buildSnowflake(config, now, sequence) ==
    LET timestamp == now - config.epoch
        datacenterId == BitAnd(config.datacenterId, 31)
        workerId == BitAnd(config.workerId, 31)
    IN BitOr(BitOr(BitOr(timestamp * Pow2(22), datacenterId * Pow2(17)),
                   workerId * Pow2(12)), sequence)

\* parseSnowflake(id, epoch).  The values of the model are below 2^31, where
\* the 41-bit mask of the timestamp is the identity on non-negative values.
parseSnowflake(id, epoch) ==
    LET snowflake == StringToBigInt(id)
    IN [timestamp |-> Date((snowflake \div Pow2(22)) + epoch),
        datacenterId |-> BitAnd(snowflake \div Pow2(17), 31),
        workerId |-> BitAnd(snowflake \div Pow2(12), 31),
        sequence |-> BitAnd(snowflake, 4095)]

\* isValidSnowflake(id): /^\d{1,20}$/
isValidSnowflake(id) ==
    /\ Len(id) >= 1
    /\ Len(id) <= 20
    /\ \A i \in 1..Len(id) : IndexOf(DIGITS, id[i]) >= 0

\* The numeric value of a returned ID: BigInt(id) for the string form.
IdValue(id) == IF id.kind = "bigint" THEN id.value ELSE StringToBigInt(id.value)

\* The record of issued IDs: a set of integers held as disjoint ranges.
RangeHas(R, x) == \E r \in R : r.lo <= x /\ x <= r.hi

RangeAdd(R, x) ==
    IF RangeHas(R, x) THEN R
    ELSE LET below == {r \in R : r.hi = x - 1}
             above == {r \in R : r.lo = x + 1}
             lo == IF below = {} THEN x ELSE (CHOOSE r \in below : TRUE).lo
             hi == IF above = {} THEN x ELSE (CHOOSE r \in above : TRUE).hi
         IN (R \ (below \cup above)) \cup {[lo |-> lo, hi |-> hi]}

RECURSIVE RangeSize(_)
RangeSize(R) ==
    IF R = {} THEN 0
    ELSE LET r == CHOOSE q \in R : TRUE
         IN (r.hi - r.lo + 1) + RangeSize(R \ {r})

(***************************************************************************)
(* Snowflake calls.                                                        *)
(***************************************************************************)
\* kernel.use(snowflakePlugin) on kernel k: Kernel.use, then install.
SnowflakeUse(k) ==
    /\ IF k \in apis
       THEN UNCHANGED <<state, apis, configuredAs>>
       ELSE /\ state' = [config |-> Null, sequence |-> 0, lastTime |-> 0]
            /\ apis' = apis \cup {k}
            /\ configuredAs' = [configuredAs EXCEPT ![k] = Null]
    /\ UNCHANGED <<clock, ret, lastId, issued, issuedCount, calls, ulidVars, uuidVars, genVars, kernVars>>

\* k.snowflake.configure(config)
SnowflakeConfigureWith(k, config) ==
    /\ k \in apis
    /\ IF validateSnowflakeConfig(config)
       THEN /\ state' = [state EXCEPT !.config = config]
            /\ configuredAs' = [configuredAs EXCEPT ![k] = config]
            /\ ret' = [kind |-> "void", kernel |-> k, api |-> "configure",
                       config |-> config]
       ELSE /\ ret' = [kind |-> "error", code |-> "INVALID_SIZE",
                       kernel |-> k, api |-> "configure", config |-> config]
            /\ UNCHANGED <<state, configuredAs>>
    /\ UNCHANGED <<clock, apis, lastId, issued, issuedCount, calls, ulidVars, uuidVars, genVars, kernVars>>

\* k.snowflake.configure with the configuration of node k, or an invalid one.
SnowflakeConfigure(k) ==
    \E config \in {NodeConfig[k]} \cup InvalidConfigs : SnowflakeConfigureWith(k, config)

\* k.snowflake() (api = "snowflake") and k.snowflake.bigint() (api = "bigint"):
\* the closure of install, then generateSnowflake.  The busy wait of a
\* sequence overflow ends at the first reading of Date.now() above `now`.
SnowflakeGenerate(k, api) ==
    /\ k \in apis
    /\ IF state.config = Null
       THEN /\ ret' = [kind |-> "error", code |-> "NOT_CONFIGURED",
                       kernel |-> k, api |-> api]
            /\ UNCHANGED <<clock, state, lastId, issued, issuedCount>>
       ELSE LET now == clock IN
            IF clockMovedBackwards(now)
            THEN /\ ret' = [kind |-> "error", code |-> "CLOCK_BACKWARDS",
                            kernel |-> k, api |-> api]
                 /\ UNCHANGED <<clock, state, lastId, issued, issuedCount>>
            ELSE LET sequence == nextSequence(now)
                     snowflake == buildSnowflake(state.config, now, sequence)
                     id == BigIntToString(snowflake)
                     value == StringToBigInt(id)
                     sameMs == /\ lastId # Null
                               /\ lastId.value \div Pow2(22) = value \div Pow2(22)
                 IN /\ IF now = state.lastTime /\ sequence = 0
                       THEN \E woke \in (now + 1)..MaxNow : clock' = woke
                       ELSE clock' = clock
                    /\ state' = [state EXCEPT !.sequence = sequence, !.lastTime = now]
                    /\ ret' = [kind |-> "id", kernel |-> k, api |-> api,
                               id |-> IF api = "bigint" THEN BigIntOf(value) ELSE Str(id),
                               prev |-> lastId, config |-> state.config,
                               now |-> now, sequence |-> sequence]
                    /\ lastId' = Num(value)
                    /\ issued' = RangeAdd(IF sameMs THEN issued ELSE {}, value)
                    /\ issuedCount' = (IF sameMs THEN issuedCount ELSE 0) + 1
    /\ UNCHANGED <<apis, configuredAs, ulidVars, uuidVars, genVars, kernVars>>

(***************************************************************************)
(* plugins/cuid2                                                           *)
(***************************************************************************)
LETTERS == LOWER
ALPHABET == DIGITS \o LOWER
DEFAULT_LENGTH == 24
MIN_LENGTH == 24
MAX_LENGTH == 32

\* Number.prototype.toString(36) of a millisecond reading.
RECURSIVE ToString36Loop(_, _)
ToString36Loop(n, result) ==
    IF n = <<>> THEN result
    ELSE LET dm == BigDivMod(n, 36)
         IN ToString36Loop(dm.q, <<ALPHABET[dm.r + 1]>> \o result)

ToString36(n) == IF n = <<>> THEN <<"0">> ELSE ToString36Loop(n, <<>>)

\* createFingerprint(): the values it can return.  Node.js: the first
\* three characters of the host name, then pid % 1000 in base 36; browser:
\* two base-36 characters.
createFingerprint ==
    { <<"n", "o", "d", "1">>, <<"n", "o", "d", "r", "r">>, <<"0", "z">> }

\* Fingerprints a caller passes in the options.
CallerFingerprints ==
    { <<>>, <<"t", "e", "s", "t">>, [i \in 1..30 |-> "x"] }

\* Lengths a caller passes in the options.
Cuid2Lengths == {23, 24, 28, 32}

\* generateCuid2: randomLength
cuid2RandomLength(length, timestamp, fingerprint) ==
    Max(8, length - 1 - Len(timestamp) - Len(fingerprint))

\* generateCuid2: the argument of kernel.random, Math.ceil(randomLength * 0.75)
cuid2RandomSize(randomLength) == (3 * randomLength + 3) \div 4

\* generateCuid2: for (const byte of randomBytes) { randomStr += ALPHABET[byte % 36];
\*                  if (randomStr.length >= randomLength) break; }
RECURSIVE cuid2RandomStr(_, _, _, _)
cuid2RandomStr(randomBytes, i, randomLength, randomStr) ==
    IF i > Len(randomBytes) THEN randomStr
    ELSE LET next == Append(randomStr, ALPHABET[(randomBytes[i] % 36) + 1])
         IN IF Len(next) >= randomLength THEN next
            ELSE cuid2RandomStr(randomBytes, i + 1, randomLength, next)

\* generateCuid2(kernel, length, fingerprint): letterIndex is
\* Math.floor(Math.random() * LETTERS.length), now the reading of
\* Date.now(), randomBytes the bytes of kernel.random.
generateCuid2(randomBytes, letterIndex, now, length, fingerprint) ==
    IF ~validateSize(length, MIN_LENGTH, MAX_LENGTH) THEN UidError("INVALID_SIZE")
    ELSE LET firstLetter == <<LETTERS[letterIndex + 1]>>
             timestamp == ToString36(now)
             randomLength == cuid2RandomLength(length, timestamp, fingerprint)
             randomStr == cuid2RandomStr(randomBytes, 1, randomLength, <<>>)
             id == firstLetter \o timestamp \o randomStr \o fingerprint
         IN Str(Slice(id, 0, length))

\* cuid2(opts): the closure of install.  The fingerprint of the closure is
\* the one createFingerprint returned at install.  Date.now() reads a
\* present-day value: PresentDay plus the clock of the model.
Cuid2 ==
    \E optLength \in {Undefined} \cup {Num(l) : l \in Cuid2Lengths},
       optFingerprint \in {Undefined} \cup {Str(f) : f \in CallerFingerprints},
       installed \in createFingerprint,
       letterIndex \in RandomIndexes(Len(LETTERS)) :
        LET now == BigMulAdd(PresentDay, 1, clock)
            length == IF optLength = Undefined THEN DEFAULT_LENGTH ELSE optLength.value
            fp == IF optFingerprint = Undefined THEN installed ELSE optFingerprint.value
            size == cuid2RandomSize(cuid2RandomLength(length, ToString36(now), fp))
        IN \E randomBytes \in RandomDraws(size) :
            /\ cuidLast' = [kind |-> "cuid2", length |-> length, fingerprint |-> fp,
                            now |-> now,
                            result |-> generateCuid2(randomBytes, letterIndex, now,
                                                     length, fp)]
            /\ UNCHANGED <<clock, snowVars, ulidVars, uuidVars,
                           codecLast, nanoLast, shortLast, kernVars>>

(***************************************************************************)
(* plugins/short                                                           *)
(***************************************************************************)
BASE62 == DIGITS \o UPPER \o LOWER

BASE58 ==
    <<"1", "2", "3", "4", "5", "6", "7", "8", "9",
      "A", "B", "C", "D", "E", "F", "G", "H", "J", "K", "L", "M", "N", "P",
      "Q", "R", "S", "T", "U", "V", "W", "X", "Y", "Z",
      "a", "b", "c", "d", "e", "f", "g", "h", "i", "j", "k", "m", "n", "o",
      "p", "q", "r", "s", "t", "u", "v", "w", "x", "y", "z">>

BASE64_URL == UPPER \o LOWER \o DIGITS \o <<"-", "_">>

\* Default size for short IDs (DEFAULT_SIZE of plugins/short).
SHORT_DEFAULT_SIZE == 11

\* k ^ size
BigPow(k, size) ==
    While(LAMBDA t : t.i < size,
          LAMBDA t : [i |-> t.i + 1, v |-> BigMulAdd(t.v, k, 0)],
          [i |-> 0, v |-> <<1>>], size).v

\* generateShort: bytesNeeded = Math.ceil(size * Math.log2(alphabet.length) / 8),
\* the least n with 256 ^ n >= alphabet.length ^ size.
bytesNeeded(size, alphabet) ==
    LET v == BigPow(Len(alphabet), size)
    IN IF v[1] = 1 /\ \A i \in 2..Len(v) : v[i] = 0 THEN Len(v) - 1 ELSE Len(v)

\* generateShort without the padding of a short encoding.
generateShortNoPad(bytes, size, alphabet) ==
    LET encoded == encodeBase(bytes, alphabet)
    IN IF encoded.kind = "error" THEN encoded
       ELSE Str(Slice(encoded.value, 0, size))

\* generateShort(kernel, size, alphabet), bytes being the bytes of
\* kernel.random(bytesNeeded).
generateShort(bytes, size, alphabet) ==
    LET encoded == encodeBase(bytes, alphabet)
    IN IF encoded.kind = "error" THEN encoded
       ELSE IF Len(encoded.value) < size
            THEN Str(PadEnd(encoded.value, size, alphabet[1]))
            ELSE Str(Slice(encoded.value, 0, size))

\* Sizes a caller passes to the short API.
ShortSizes == {1, 2, 3, 5, 8, 10, 11, 21, 50, 100}

\* A call of the short API on the arguments held in shortLast.
ShortCall(api, size, alphabet) ==
    /\ shortLast.kind = "args"
    /\ shortLast.api = api
    /\ \E bytes \in RandomDraws(bytesNeeded(size, alphabet)) :
         shortLast' = [kind |-> "result", api |-> api, size |-> size,
                       alphabet |-> alphabet, bytes |-> bytes,
                       result |-> generateShort(bytes, size, alphabet)]
    /\ UNCHANGED <<clock, snowVars, ulidVars, uuidVars, cuidLast, codecLast, nanoLast, kernVars>>

\* short(size): generateShort(kernel, size ?? DEFAULT_SIZE, BASE58)
Short ==
    ShortCall("short", IF shortLast.size = Undefined THEN SHORT_DEFAULT_SIZE
                       ELSE shortLast.size.value, BASE58)

\* short.youtube(): generateShort(kernel, 11, BASE64_URL)
ShortYoutube == ShortCall("youtube", 11, BASE64_URL)

\* short.base62(size = 10)
ShortBase62 ==
    ShortCall("base62", IF shortLast.size = Undefined THEN 10
                        ELSE shortLast.size.value, BASE62)

\* short.base58(size = 8)
ShortBase58 ==
    ShortCall("base58", IF shortLast.size = Undefined THEN 8
                        ELSE shortLast.size.value, BASE58)

(***************************************************************************)
(* plugins/nanoid                                                          *)
(***************************************************************************)
DEFAULT_ALPHABET ==
    <<"M", "o", "d", "u", "l", "e", "S", "y", "m", "b", "h", "a", "s", "O", "w",
      "n", "P", "r", "-", "0", "1", "2", "3", "4", "5", "6", "7", "8", "9", "A",
      "B", "C", "D", "E", "F", "G", "H", "N", "R", "V", "f", "g", "c", "t", "i",
      "U", "v", "z", "_", "K", "q", "Y", "T", "J", "k", "L", "x", "p", "Z", "X",
      "I", "j", "w", "W">>

DEFAULT_SIZE == 21

\* The outputs of kernel.random(n) a nanoid call draws from, by name: byte i
\* (from 1) of "zeros" is 0, of "max" 255, of "count" (i - 1) mod 256, and
\* "skip" is one byte 255 followed by zeros.
RandomPatterns == {"zeros", "max", "count", "skip"}

RandomByte(pattern, i) ==
    IF pattern = "zeros" THEN 0
    ELSE IF pattern = "max" THEN 255
    ELSE IF pattern = "count" THEN (i - 1) % 256
    ELSE IF i = 1 THEN 255 ELSE 0

\* generateNanoid with every byte accepted.
nanoidCharBiased(byte, alphabet) == <<alphabet[(byte % Len(alphabet)) + 1]>>

\* generateNanoid: what one byte adds to the id.
\* if (byte < 256 - (256 % alphabetSize)) id += alphabet[byte % alphabetSize]
nanoidChar(byte, alphabet) ==
    IF byte < 256 - (256 % Len(alphabet))
    THEN <<alphabet[(byte % Len(alphabet)) + 1]>>
    ELSE <<>>

\* generateNanoid: step = Math.ceil((256 * size) / alphabetSize)
nanoidStep(size, alphabet) == (256 * size + Len(alphabet) - 1) \div Len(alphabet)

\* generateNanoid: one iteration of the loop.  `draw` names the bytes in
\* `bytes`: the first output of kernel.random, then the refills.
nanoidLoopBody(t, size, alphabet, refill) ==
    LET byte == RandomByte(t.draw, t.bytesRead + 1)
        bytesRead == t.bytesRead + 1
        id == t.id \o nanoidChar(byte, alphabet)
    IN IF bytesRead >= nanoidStep(size, alphabet) /\ Len(id) < size
       THEN [id |-> id, draw |-> refill, bytesRead |-> 0, refills |-> t.refills + 1]
       ELSE [id |-> id, draw |-> t.draw, bytesRead |-> bytesRead, refills |-> t.refills]

\* generateNanoid(kernel, size, alphabet): the string, the error thrown, or
\* "running" while the loop still waits for bytes after MaxRefills refills.
\* random.first names the first output of kernel.random, random.refill the
\* later ones.
generateNanoid(random, size, alphabet) ==
    IF ~validateAlphabet(alphabet) THEN UidError("INVALID_ALPHABET")
    ELSE IF ~validateSize(size, 1, 256) THEN UidError("INVALID_SIZE")
    ELSE LET t == While(LAMBDA u : Len(u.id) < size /\ u.refills <= MaxRefills,
                        LAMBDA u : nanoidLoopBody(u, size, alphabet, random.refill),
                        [id |-> <<>>, draw |-> random.first, bytesRead |-> 0,
                         refills |-> 0],
                        nanoidStep(size, alphabet) * (MaxRefills + 1))
         IN IF Len(t.id) < size THEN [kind |-> "running"] ELSE Str(t.id)

\* Sizes and alphabets a caller passes to the nanoid API.
NanoidSizes == {0, 1, 2, 21, 256, 257}

CustomAlphabets ==
    { <<"a", "b">>, <<"a", "b", "c">>, <<"a", "b", "c", "1", "2", "3">>,
      [i \in 1..255 |-> FromCharCode(i)], [i \in 1..256 |-> FromCharCode(i - 1)],
      <<"a">>, <<"a", "a">> }

\* A call of the nanoid API on the arguments held in nanoLast.
NanoidCall(api, size, alphabet) ==
    /\ nanoLast.kind = "args"
    /\ nanoLast.api = api
    /\ nanoLast' = [kind |-> "result", api |-> api, size |-> size,
                    alphabet |-> alphabet, random |-> nanoLast.random,
                    result |-> generateNanoid(nanoLast.random, size, alphabet)]
    /\ UNCHANGED <<clock, snowVars, ulidVars, uuidVars, cuidLast, codecLast, shortLast, kernVars>>

\* nanoid(size): generateNanoid(kernel, size ?? DEFAULT_SIZE)
Nanoid ==
    NanoidCall("nanoid", IF nanoLast.size = Undefined THEN DEFAULT_SIZE
                         ELSE nanoLast.size.value, DEFAULT_ALPHABET)

\* nanoid.urlSafe(size = DEFAULT_SIZE)
NanoidUrlSafe ==
    NanoidCall("urlSafe", IF nanoLast.size = Undefined THEN DEFAULT_SIZE
                          ELSE nanoLast.size.value, DEFAULT_ALPHABET)

\* nanoid.custom({alphabet, size})
NanoidCustom ==
    NanoidCall("custom", IF nanoLast.size = Undefined THEN DEFAULT_SIZE
                         ELSE nanoLast.size.value,
                         IF nanoLast.alphabet = Undefined THEN DEFAULT_ALPHABET
                         ELSE nanoLast.alphabet.value)

\* Alphabets and sizes for the loop of generateNanoid taken step by step:
\* 2, 3, 255, 256 and 257 distinct characters.
LoopAlphabets ==
    { <<"a", "b">>, <<"a", "b", "c">> }
    \cup { [i \in 1..k |-> FromCharCode(i - 1)] : k \in {255, 256, 257} }

LoopSizes == {1, 2, 3}

\* generateNanoid up to the loop: the two validations, step, the first
\* kernel.random(step).  `source` is the next byte of a random source that
\* delivers the byte values 0, 1, ..., 255 in turn, over and over.
NanoidLoopEnter ==
    /\ nanoLast.kind = "loopArgs"
    /\ nanoLast' =
            IF ~validateAlphabet(nanoLast.alphabet)
            THEN [kind |-> "result", size |-> nanoLast.size,
                  alphabet |-> nanoLast.alphabet, result |-> UidError("INVALID_ALPHABET")]
            ELSE IF ~validateSize(nanoLast.size, 1, 256)
            THEN [kind |-> "result", size |-> nanoLast.size,
                  alphabet |-> nanoLast.alphabet, result |-> UidError("INVALID_SIZE")]
            ELSE [kind |-> "loop", size |-> nanoLast.size,
                  alphabet |-> nanoLast.alphabet, id |-> <<>>, bytesRead |-> 0,
                  source |-> 0]
    /\ UNCHANGED <<clock, snowVars, ulidVars, uuidVars, cuidLast, codecLast, shortLast, kernVars>>

\* generateNanoid: one iteration of while (id.length < size), and the
\* return when the condition fails afterwards.
NanoidLoopIterate ==
    /\ nanoLast.kind = "loop"
    /\ LET byte == nanoLast.source
           bytesRead == nanoLast.bytesRead + 1
           id == nanoLast.id \o nanoidChar(byte, nanoLast.alphabet)
       IN nanoLast' =
            IF Len(id) >= nanoLast.size
            THEN [kind |-> "result", size |-> nanoLast.size,
                  alphabet |-> nanoLast.alphabet, result |-> Str(id)]
            ELSE [nanoLast EXCEPT
                    !.id = id,
                    !.source = (byte + 1) % 256,
                    !.bytesRead = IF bytesRead >= nanoidStep(nanoLast.size, nanoLast.alphabet)
                                  THEN 0 ELSE bytesRead]
    /\ UNCHANGED <<clock, snowVars, ulidVars, uuidVars, cuidLast, codecLast, shortLast, kernVars>>

(***************************************************************************)
(* Base codec calls.                                                       *)
(***************************************************************************)
\* Alphabets passed to encodeBase and decodeBase: two and three characters,
\* hexadecimal, the built-in ones, and two that validateAlphabet rejects.
CodecAlphabets ==
    { <<"a", "b">>, <<"a", "b", "c">>, HEX, CROCKFORD_BASE32, BASE58,
      <<"a">>, <<"a", "a">> }

\* Byte arrays passed to encodeBase: every array of up to MaxBytes bytes
\* over 0, 1 and 255, and the array of the round-trip test.
ByteSamples ==
    UNION { [1..n -> {0, 1, 255}] : n \in 0..MaxBytes } \cup { <<1, 2, 3, 4, 5>> }

\* The arguments of a round trip: the byte arrays above with every
\* alphabet, and arrays of LongBytes bytes with the built-in alphabets.
CodecInputs ==
    (ByteSamples \X CodecAlphabets)
        \cup ({ [i \in 1..LongBytes |-> 255],
                [i \in 1..LongBytes |-> IF i = 1 THEN 0 ELSE i] }
                \X { HEX, CROCKFORD_BASE32, BASE58 })

\* decodeBase(encodeBase(bytes, alphabet), alphabet) on the arguments held
\* in codecLast.
CodecRoundTrip ==
    /\ codecLast.kind = "args"
    /\ LET bytes == codecLast.bytes
           alphabet == codecLast.alphabet
           encoded == encodeBase(bytes, alphabet)
       IN codecLast' = [kind |-> "roundtrip", bytes |-> bytes,
                        alphabet |-> alphabet, encoded |-> encoded,
                        decoded |-> IF encoded.kind = "error" THEN encoded
                                    ELSE decodeBase(encoded.value, alphabet)]
    /\ UNCHANGED <<clock, snowVars, ulidVars, uuidVars, cuidLast, nanoLast, shortLast, kernVars>>

\* Strings and alphabets passed to decodeBase alone: every string of up to
\* MaxChars characters over a, b, c and x, with alphabets that hold all,
\* some or none of these characters, and two that validateAlphabet rejects.
DecodeStrings == UNION { [1..n -> {"a", "b", "c", "x"}] : n \in 0..MaxChars }

DecodeAlphabets ==
    { <<"a", "b">>, <<"a", "b", "c">>, HEX, <<"a">>, <<"a", "a">> }

\* decodeBase(str, alphabet) on the arguments held in codecLast.
CodecDecode ==
    /\ codecLast.kind = "decodeArgs"
    /\ codecLast' = [kind |-> "decoded", str |-> codecLast.str,
                     alphabet |-> codecLast.alphabet,
                     result |-> decodeBase(codecLast.str, codecLast.alphabet)]
    /\ UNCHANGED <<clock, snowVars, ulidVars, uuidVars, cuidLast, nanoLast, shortLast, kernVars>>

(***************************************************************************)
(* kernel/kernel.ts                                                        *)
(***************************************************************************)
\* The plugin objects handed to kernel.use, by an identifier of the object:
\* a plugin that registers an API under its own name, a second object of
\* the same name, a plugin that depends on the first, the plugin of the
\* UidPlugin example, whose API name differs from its name, and a plugin
\* whose install registers an API and then throws.
PluginObjects ==
    [ alpha  |-> [name |-> "alpha", dependencies |-> {}, api |-> "alpha",
                  throws |-> FALSE],
      alpha2 |-> [name |-> "alpha", dependencies |-> {}, api |-> "alpha",
                  throws |-> FALSE],
      beta   |-> [name |-> "beta", dependencies |-> {"alpha"}, api |-> "beta",
                  throws |-> FALSE],
      myAlgo |-> [name |-> "my-algo", dependencies |-> {}, api |-> "myAlgo",
                  throws |-> FALSE],
      faulty |-> [name |-> "faulty", dependencies |-> {}, api |-> "faulty",
                  throws |-> TRUE] ]

\* The names passed to unregister and getApi: the plugin names, the API
\* names and one that is never registered.
KernelNames == {"alpha", "beta", "my-algo", "myAlgo", "faulty", "missing"}

\* kernel.list(): Array.from(this.plugins.keys())
list == [i \in 1..Len(plugins) |-> PluginObjects[plugins[i]].name]

\* kernel.has(name): this.plugins.has(name)
has(name) == \E i \in 1..Len(plugins) : PluginObjects[plugins[i]].name = name

\* kernel.getApi(name): the plugin object whose install registered the API
\* now stored under name, or "undefined".
getApi(name) == kernelApis[name]

\* One more call of a hook of plugin object p.
Called(hook, p) ==
    [hookCalls EXCEPT ![hook] = [@ EXCEPT ![p] = @ + 1]]

\* Kernel.use without the test for a registered name.
useSkipsRegisteredLax(plugin) == FALSE

\* Kernel.use: if (this.plugins.has(plugin.name)) return this
useSkipsRegistered(plugin) == has(PluginObjects[plugin].name)

\* Kernel.use without the dependency check.
useMissingDependencyLax(plugin) == FALSE

\* Kernel.use: some dep of plugin.dependencies with !this.plugins.has(dep)
useMissingDependency(plugin) ==
    \E dep \in PluginObjects[plugin].dependencies : ~has(dep)

\* kernel.use(plugin)
KernelUse(plugin) ==
    /\ kernelOps < MaxOps
    /\ kernelOps' = kernelOps + 1
    /\ IF useSkipsRegistered(plugin)
       THEN /\ kernelRet' = [op |-> "use", plugin |-> plugin, result |-> "this"]
            /\ UNCHANGED <<plugins, kernelApis, hookCalls>>
       ELSE IF useMissingDependency(plugin)
       THEN /\ kernelRet' = [op |-> "use", plugin |-> plugin,
                             result |-> "throws dependency"]
            /\ UNCHANGED <<plugins, kernelApis, hookCalls>>
       ELSE IF PluginObjects[plugin].throws
       THEN \* plugins.set, install registers its API and throws,
            \* plugins.delete, onError, rethrow
            /\ plugins' = plugins
            /\ kernelApis' = [kernelApis EXCEPT ![PluginObjects[plugin].api] = plugin]
            /\ hookCalls' = [hookCalls EXCEPT
                                !["install"] = [@ EXCEPT ![plugin] = @ + 1],
                                !["onError"] = [@ EXCEPT ![plugin] = @ + 1]]
            /\ kernelRet' = [op |-> "use", plugin |-> plugin,
                             result |-> "throws install"]
       ELSE /\ plugins' = Append(plugins, plugin)
            /\ kernelApis' = [kernelApis EXCEPT ![PluginObjects[plugin].api] = plugin]
            /\ hookCalls' = Called("install", plugin)
            /\ kernelRet' = [op |-> "use", plugin |-> plugin, result |-> "this"]
    /\ UNCHANGED <<destroying, clock, snowVars, ulidVars, uuidVars, genVars>>

\* kernel.unregister(name).  Deleting a Map entry that the iterator of a
\* pending destroy() has passed moves the iterator back with it.
KernelUnregister(name) ==
    /\ kernelOps < MaxOps
    /\ kernelOps' = kernelOps + 1
    /\ IF ~has(name)
       THEN /\ kernelRet' = [op |-> "unregister", name |-> name, result |-> "false"]
            /\ UNCHANGED <<plugins, kernelApis, hookCalls, destroying>>
       ELSE LET i == CHOOSE j \in 1..Len(plugins) :
                        PluginObjects[plugins[j]].name = name
            IN /\ plugins' = SubSeq(plugins, 1, i - 1) \o
                             SubSeq(plugins, i + 1, Len(plugins))
               /\ kernelApis' = [kernelApis EXCEPT ![name] = "undefined"]
               /\ hookCalls' = Called("onDestroy", plugins[i])
               /\ destroying' = IF destroying.pc = "await" /\ i <= destroying.pos
                                THEN [destroying EXCEPT !.pos = @ - 1]
                                ELSE destroying
               /\ kernelRet' = [op |-> "unregister", name |-> name, result |-> "true"]
    /\ UNCHANGED <<clock, snowVars, ulidVars, uuidVars, genVars>>

\* kernel.destroy() up to its first await: the first iteration of
\* for (const [name, plugin] of this.plugins) await plugin.onDestroy?.()
\* or, with no plugin registered, the two clear() calls.  `registered` and
\* `before` keep what was registered and the onDestroy calls made when
\* destroy was called.
KernelDestroy ==
    /\ kernelOps < MaxOps
    /\ destroying.pc = "idle"
    /\ kernelOps' = kernelOps + 1
    /\ IF plugins = <<>>
       THEN /\ kernelApis' = [n \in KernelNames |-> "undefined"]
            /\ kernelRet' = [op |-> "destroy", result |-> "resolved",
                             registered |-> {}, before |-> hookCalls["onDestroy"]]
            /\ UNCHANGED <<plugins, hookCalls, destroying>>
       ELSE /\ hookCalls' = Called("onDestroy", plugins[1])
            /\ destroying' = [pc |-> "await", pos |-> 1,
                              registered |-> {plugins[i] : i \in 1..Len(plugins)},
                              before |-> hookCalls["onDestroy"]]
            /\ kernelRet' = [op |-> "destroy", result |-> "pending"]
            /\ UNCHANGED <<plugins, kernelApis>>
    /\ UNCHANGED <<clock, snowVars, ulidVars, uuidVars, genVars>>

\* destroy() resumes after an await: the next iteration, or the end of the
\* loop, plugins.clear(), apis.clear() and the promise resolved.
KernelDestroyResume ==
    /\ destroying.pc = "await"
    /\ IF destroying.pos < Len(plugins)
       THEN /\ hookCalls' = Called("onDestroy", plugins[destroying.pos + 1])
            /\ destroying' = [destroying EXCEPT !.pos = @ + 1]
            /\ UNCHANGED <<plugins, kernelApis, kernelRet>>
       ELSE /\ plugins' = <<>>
            /\ kernelApis' = [n \in KernelNames |-> "undefined"]
            /\ destroying' = [pc |-> "idle", pos |-> 0, registered |-> {},
                              before |-> destroying.before]
            /\ kernelRet' = [op |-> "destroy", result |-> "resolved",
                             registered |-> destroying.registered,
                             before |-> destroying.before]
            /\ UNCHANGED hookCalls
    /\ UNCHANGED <<kernelOps, clock, snowVars, ulidVars, uuidVars, genVars>>

(***************************************************************************)
(* The clock.                                                              *)
(***************************************************************************)
\* Date.now() advances by one millisecond.
Tick ==
    /\ clock < MaxNow
    /\ clock' = clock + 1
    /\ UNCHANGED <<snowVars, ulidVars, uuidVars, genVars, kernVars>>

\* The system clock is set back by one millisecond.
ClockBack ==
    /\ clock > 1
    /\ clock' = clock - 1
    /\ UNCHANGED <<snowVars, ulidVars, uuidVars, genVars, kernVars>>

(***************************************************************************)
(* Initial states and specifications.                                      *)
(***************************************************************************)
SnowInit ==
    /\ state = [config |-> Null, sequence |-> 0, lastTime |-> 0]
    /\ apis = {}
    /\ configuredAs = [k \in Kernels |-> Null]
    /\ ret = Null
    /\ lastId = Null
    /\ issued = {}
    /\ issuedCount = 0
    /\ calls = 0

UlidInit ==
    /\ lastTime = 0
    /\ lastRandom = 0
    /\ ulidLast = Null
    /\ ulidPrev = Null

UuidInit ==
    /\ uuidLast = Null
    /\ uuidPrev = Null

GenInit ==
    /\ cuidLast = Null
    /\ codecLast = Null
    /\ nanoLast = Null
    /\ shortLast = Null

\* new Kernel(): no plugin, no API, no hook called.
KernelInit ==
    /\ plugins = <<>>
    /\ kernelApis = [n \in KernelNames |-> "undefined"]
    /\ hookCalls = [hook \in {"install", "onDestroy", "onError"} |->
                        [p \in DOMAIN PluginObjects |-> 0]]
    /\ destroying = [pc |-> "idle", pos |-> 0, registered |-> {},
                     before |-> [p \in DOMAIN PluginObjects |-> 0]]
    /\ kernelRet = Null
    /\ kernelOps = 0

Init ==
    /\ clock = 1
    /\ SnowInit
    /\ UlidInit
    /\ UuidInit
    /\ KernelInit
    /\ GenInit

\* The UUID codec: any sequence of v4 and v7 calls.
UuidNext == UuidV4 \/ UuidV7

SpecUuid == Init /\ [][UuidNext]_vars


\* The ULID codec: any sequence of ulid and ulid.monotonic calls under an
\* advancing clock, and installs of the plugin on further kernels.
UlidNext == Ulid \/ UlidMonotonic \/ UlidInstall \/ Tick

SpecUlid == Init /\ [][UlidNext]_vars

\* One Snowflake instance: a single kernel installs the plugin, configures
\* it and generates, under a clock that never goes backward.
SnowflakeNext ==
    \/ SnowflakeUse("node1")
    \/ SnowflakeConfigure("node1")
    \/ \E api \in {"snowflake", "bigint"} :
         SnowflakeGenerate("node1", api) /\ UNCHANGED calls
    \/ Tick

SpecSnowflake == Init /\ [][SnowflakeNext]_vars

\* The multi-node setup: two kernels of one process install and configure
\* the plugin; the number of generation calls is bounded.
ClusterNext ==
    \/ \E k \in Kernels : SnowflakeUse(k)
    \/ \E k \in Kernels : SnowflakeConfigure(k)
    \/ \E k \in Kernels, api \in {"snowflake", "bigint"} :
         /\ calls < MaxCalls
         /\ SnowflakeGenerate(k, api)
         /\ calls' = calls + 1
    \/ Tick

SpecCluster == Init /\ [][ClusterNext]_vars

\* The cuid2 API: any sequence of calls under an advancing clock.
SpecCuid2 == Init /\ [][Cuid2 \/ Tick]_vars

\* The base codec, a pure function: the initial state holds the arguments
\* of a round trip and the step applies it.
CodecInit ==
    /\ clock = 1
    /\ SnowInit
    /\ UlidInit
    /\ UuidInit
    /\ KernelInit
    /\ cuidLast = Null
    /\ nanoLast = Null
    /\ shortLast = Null
    /\ codecLast \in { [kind |-> "args", bytes |-> input[1], alphabet |-> input[2]] :
                         input \in CodecInputs }

SpecCodec == CodecInit /\ [][CodecRoundTrip]_vars

\* decodeBase alone, on the strings and alphabets above.
DecodeInit ==
    /\ clock = 1
    /\ SnowInit
    /\ UlidInit
    /\ UuidInit
    /\ KernelInit
    /\ cuidLast = Null
    /\ nanoLast = Null
    /\ shortLast = Null
    /\ codecLast \in { [kind |-> "decodeArgs", str |-> str, alphabet |-> alphabet] :
                          str \in DecodeStrings, alphabet \in DecodeAlphabets }

SpecDecode == DecodeInit /\ [][CodecDecode]_vars

\* generateNanoid step by step, with the fairness of a running program: a
\* call that can take its next step takes it.
NanoidLoopInit ==
    /\ clock = 1
    /\ SnowInit
    /\ UlidInit
    /\ UuidInit
    /\ KernelInit
    /\ cuidLast = Null
    /\ codecLast = Null
    /\ shortLast = Null
    /\ nanoLast \in { [kind |-> "loopArgs", size |-> size, alphabet |-> alphabet] :
                         size \in LoopSizes, alphabet \in LoopAlphabets }

SpecNanoidLoop ==
    /\ NanoidLoopInit
    /\ [][NanoidLoopEnter \/ NanoidLoopIterate]_vars
    /\ WF_vars(NanoidLoopEnter \/ NanoidLoopIterate)

\* ULID decoding, a pure function of the string: the initial state holds the
\* argument and the step makes the call.
UlidDecodeInit ==
    /\ clock = 1
    /\ SnowInit
    /\ UuidInit
    /\ KernelInit
    /\ GenInit
    /\ lastTime = 0
    /\ lastRandom = 0
    /\ ulidPrev = Null
    /\ ulidLast \in { [kind |-> "args", id |-> id] : id \in UlidStrings }

SpecUlidDecode == UlidDecodeInit /\ [][UlidIsValid \/ UlidTimestamp]_vars

\* The short API, a pure function of its arguments and of the random bytes:
\* the initial state holds the arguments of a call and the step makes it.
ShortInit ==
    /\ clock = 1
    /\ SnowInit
    /\ UlidInit
    /\ UuidInit
    /\ KernelInit
    /\ cuidLast = Null
    /\ codecLast = Null
    /\ nanoLast = Null
    /\ shortLast \in
         { [kind |-> "args", api |-> api, size |-> size] :
             api \in {"short", "base62", "base58"},
             size \in {Undefined} \cup {Num(n) : n \in ShortSizes} }
         \cup { [kind |-> "args", api |-> "youtube", size |-> Undefined] }

SpecShort ==
    ShortInit /\ [][Short \/ ShortYoutube \/ ShortBase62 \/ ShortBase58]_vars

\* The nanoid API, likewise: the initial state holds the arguments of a
\* call and names the outputs of the random source.
NanoidInit ==
    /\ clock = 1
    /\ SnowInit
    /\ UlidInit
    /\ UuidInit
    /\ KernelInit
    /\ cuidLast = Null
    /\ codecLast = Null
    /\ shortLast = Null
    /\ nanoLast \in
         { [kind |-> "args", api |-> api, size |-> size, alphabet |-> Undefined,
            random |-> [first |-> first, refill |-> refill]] :
             api \in {"nanoid", "urlSafe"},
             size \in {Undefined} \cup {Num(n) : n \in NanoidSizes},
             first \in RandomPatterns, refill \in {"zeros", "max"} }
         \cup
         { [kind |-> "args", api |-> "custom", size |-> size, alphabet |-> alphabet,
            random |-> [first |-> first, refill |-> refill]] :
             size \in {Undefined} \cup {Num(n) : n \in NanoidSizes},
             alphabet \in {Undefined} \cup {Str(a) : a \in CustomAlphabets},
             first \in RandomPatterns, refill \in {"zeros", "max"} }

NanoidNext == Nanoid \/ NanoidUrlSafe \/ NanoidCustom

SpecNanoid == NanoidInit /\ [][NanoidNext]_vars

\* One kernel under any sequence of use, unregister and destroy calls, the
\* calls interleaving with the awaits of a pending destroy.
KernelNext ==
    \/ \E plugin \in DOMAIN PluginObjects : KernelUse(plugin)
    \/ \E name \in KernelNames : KernelUnregister(name)
    \/ KernelDestroy
    \/ KernelDestroyResume

SpecKernel == Init /\ [][KernelNext]_vars

\* The Snowflake API of one kernel under any use: every configuration a
\* caller may pass, a clock that may be set back, a bounded number of
\* generation calls.
SnowflakeApiNext ==
    \/ SnowflakeUse("node1")
    \/ \E config \in SnowflakeConfigs \cup InvalidConfigs :
         SnowflakeConfigureWith("node1", config)
    \/ \E api \in {"snowflake", "bigint"} :
         /\ calls < MaxCalls
         /\ SnowflakeGenerate("node1", api)
         /\ calls' = calls + 1
    \/ Tick
    \/ ClockBack

SpecSnowflakeApi == Init /\ [][SnowflakeApiNext]_vars

(***************************************************************************)
(* Properties.                                                             *)
(***************************************************************************)
\* C1: on one configured Snowflake instance under a clock that never goes
\* backward, the IDs returned by snowflake()/snowflake.bigint() are pairwise
\* distinct: the calls that returned IDs carrying one timestamp field
\* returned as many different IDs, sequence wraparound included.
C1_DistinctIds == RangeSize(issued) = issuedCount

\* C2: ulid.monotonic() called again while the clock stays on the same
\* millisecond returns a string lexicographically greater than the one the
\* previous call returned, for every output of the random source.
C2_MonotonicIncreasing ==
    (/\ ulidLast.kind = "monotonic"
     /\ ulidPrev.kind = "monotonic"
     /\ ulidPrev.timestamp = ulidLast.timestamp)
        => StrLess(ulidPrev.id, ulidLast.id)

\* C3: on one configured Snowflake instance under a clock that never goes
\* backward, every ID returned is numerically greater than the ID returned
\* by the previous successful call.
C3_IncreasingIds ==
    (ret.kind = "id" /\ ret.prev # Null) => ret.prev.value < IdValue(ret.id)

\* C4: configuration and state belong to one instance: an ID generated
\* through a kernel's own snowflake API parses to the workerId and
\* datacenterId that kernel configured, and a kernel that has configured
\* its instance is not unconfigured by another kernel's install.
C4_OwnConfiguration ==
    /\ ret.kind = "id" =>
         /\ configuredAs[ret.kernel] # Null
         /\ LET parsed == parseSnowflake(BigIntToString(IdValue(ret.id)),
                                         configuredAs[ret.kernel].epoch)
            IN /\ parsed.workerId = configuredAs[ret.kernel].workerId
               /\ parsed.datacenterId = configuredAs[ret.kernel].datacenterId
    /\ (ret.kind = "error" /\ ret.code = "NOT_CONFIGURED") =>
         configuredAs[ret.kernel] = Null

\* C5: the string returned by uuid.v4() parses to version 4 and variant
\* 'RFC4122', for every draw of the random source.
C5_V4ParsesAsRfc4122 ==
    uuidLast.kind = "v4" =>
        /\ parseUuid(uuidLast.id) # Null
        /\ parseUuid(uuidLast.id).version = 4
        /\ parseUuid(uuidLast.id).variant = "RFC4122"

\* C6: for timestamps t1 < t2 and any random draws, uuid.v7 at t1 is
\* lexicographically smaller than uuid.v7 at t2.
C6_V7SortsByTime ==
    (/\ uuidLast.kind = "v7"
     /\ uuidPrev.kind = "v7"
     /\ BigLess(uuidPrev.timestamp, uuidLast.timestamp))
        => StrLess(uuidPrev.id, uuidLast.id)

\* C7: uuid.parse of a v7 UUID generated at timestamp t in [0, 2^48)
\* returns the timestamp t.
C7_V7TimestampRoundTrip ==
    uuidLast.kind = "v7" =>
        /\ parseUuid(uuidLast.id) # Null
        /\ parseUuid(uuidLast.id).timestamp = Date(uuidLast.timestamp)

\* C8: ulid.timestamp of a ULID generated at timestamp t in [0, 2^48)
\* returns t.
C8_UlidTimestampRoundTrip ==
    ulidLast.kind = "ulid" => extractTimestamp(ulidLast.id) = Date(ulidLast.timestamp)

\* C9: for timestamps t1 < t2 in [0, 2^48) and any random draws, the ULID
\* generated at t1 is lexicographically smaller than the one generated at t2.
C9_UlidSortsByTime ==
    (/\ ulidLast.kind = "ulid"
     /\ ulidPrev.kind = "ulid"
     /\ BigLess(ulidPrev.timestamp, ulidLast.timestamp))
        => StrLess(ulidPrev.id, ulidLast.id)

\* C10: every string returned by ulid(), ulid({timestamp}) and
\* ulid.monotonic() has exactly 26 characters of the Crockford Base32
\* alphabet, so that ulid.isValid accepts it, for every output of the random
\* source.
C10_UlidIs26Chars ==
    ulidLast.kind \in {"ulid", "monotonic"} =>
        /\ Len(ulidLast.id) = 26
        /\ isValidUlid(ulidLast.id)

\* C11: for a configuration with workerId and datacenterId in 0..31 and an
\* epoch not after the clock reading `now`, the ID generated at `now` with
\* sequence s is ((now - epoch) << 22) | (datacenterId << 17) |
\* (workerId << 12) | s, and snowflake.parse of it returns exactly
\* {timestamp: now, datacenterId, workerId, sequence: s}.
C11_LayoutAndParse ==
    (ret.kind = "id" /\ ret.config.epoch <= ret.now) =>
        /\ IdValue(ret.id) = (ret.now - ret.config.epoch) * 4194304
                               + ret.config.datacenterId * 131072
                               + ret.config.workerId * 4096
                               + ret.sequence
        /\ parseSnowflake(BigIntToString(IdValue(ret.id)), ret.config.epoch) =
             [timestamp |-> Date(ret.now),
              datacenterId |-> ret.config.datacenterId,
              workerId |-> ret.config.workerId,
              sequence |-> ret.sequence]

\* A call at a reading after the epoch returned an ID with a non-zero
\* sequence, worker and datacenter.
C11_Witness ==
    /\ ret.kind = "id"
    /\ ret.config.epoch < ret.now
    /\ ret.sequence > 0
    /\ ret.config.workerId = 5
    /\ ret.config.datacenterId = 3

\* C12: a generation call whose clock reading is lower than the timestamp
\* of the last successful call fails with CLOCK_BACKWARDS, returns no ID and
\* leaves lastTime and sequence unchanged.
C12_ClockBackwardsRejected ==
    [][(calls' = calls + 1 /\ state.config # Null /\ clock < state.lastTime) =>
          /\ ret'.kind = "error"
          /\ ret'.code = "CLOCK_BACKWARDS"
          /\ state' = state
          /\ lastId' = lastId]_vars

\* A call failed with CLOCK_BACKWARDS after calls that had advanced the
\* sequence.
C12_Witness ==
    /\ ret.kind = "error"
    /\ ret.code = "CLOCK_BACKWARDS"
    /\ clock < state.lastTime
    /\ state.sequence > 0

C14_ValidIds ==
    ret.kind = "id" =>
        /\ IdValue(ret.id) >= 0
        /\ isValidSnowflake(BigIntToString(IdValue(ret.id)))

\* C15: cuid2({length: L, fingerprint: F}) returns a string of exactly L
\* characters (24 when length is omitted) for every L in 24..32, every
\* fingerprint, default or caller-supplied, and every current timestamp.
C15_Cuid2Length ==
    (cuidLast.kind = "cuid2" /\ cuidLast.length \in 24..32) =>
        /\ cuidLast.result.kind = "string"
        /\ Len(cuidLast.result.value) = cuidLast.length

\* A byte array left-padded with zero bytes, or left-trimmed of zero bytes,
\* to n bytes; the array itself when trimming would drop a non-zero byte.
PadOrTrimZeros(b, n) ==
    IF Len(b) <= n THEN [i \in 1..(n - Len(b)) |-> 0] \o b
    ELSE IF \A i \in 1..(Len(b) - n) : b[i] = 0 THEN SubSeq(b, Len(b) - n + 1, Len(b))
    ELSE b

AlphabetInvariant(alphabet) ==
    /\ Len(alphabet) >= 2
    /\ \A i, j \in 1..Len(alphabet) : alphabet[i] = alphabet[j] => i = j

\* C17: every built-in alphabet satisfies the alphabet invariant and has
\* its documented size (NanoID default 64, Crockford 32, Base58 58, Base62
\* 62, Base64-URL 64), and a nanoid call that leaves the alphabet to its
\* default never fails with INVALID_ALPHABET.
C17_BuiltinAlphabets ==
    (nanoLast.kind = "result" /\ nanoLast.api \in {"nanoid", "urlSafe"}) =>
        /\ \A alphabet \in {DEFAULT_ALPHABET, CROCKFORD_BASE32, BASE58, BASE62,
                              BASE64_URL} : AlphabetInvariant(alphabet)
        /\ Len(DEFAULT_ALPHABET) = 64
        /\ Len(CROCKFORD_BASE32) = 32
        /\ Len(BASE58) = 58
        /\ Len(BASE62) = 62
        /\ Len(BASE64_URL) = 64
        /\ nanoLast.result # UidError("INVALID_ALPHABET")

\* C18: nanoid(size), nanoid.urlSafe(size) and nanoid.custom({alphabet,
\* size}), for a size in 1..256 (21 when omitted) and an alphabet that
\* satisfies the alphabet invariant when one is given, return a string of
\* exactly size characters, each a member of the alphabet in use, whenever
\* the random source lets the call return.
C18_NanoidLengthAndCharset ==
    ( /\ nanoLast.kind = "result"
      /\ nanoLast.size \in 1..256
      /\ nanoLast.alphabet = DEFAULT_ALPHABET \/ AlphabetInvariant(nanoLast.alphabet)
      /\ nanoLast.result.kind # "running" ) =>
        /\ nanoLast.result.kind = "string"
        /\ Len(nanoLast.result.value) = nanoLast.size
        /\ \A i \in 1..Len(nanoLast.result.value) :
             \E j \in 1..Len(nanoLast.alphabet) :
                nanoLast.result.value[i] = nanoLast.alphabet[j]

\* C19: for the alphabet of every nanoid call that passed validation (k
\* characters, 2 <= k <= 256), a byte b is emitted iff b < 256 - (256 mod k),
\* it is emitted as alphabet[b mod k], and each alphabet index is the image
\* of exactly floor(256 / k) byte values; and a call that draws the bytes
\* 0, 1, 2, ... returns alphabet[0], alphabet[1], ... in that order for as
\* long as the bytes stay below the threshold.
C19_RejectionSamplingUnbiased ==
    (nanoLast.kind = "result" /\ nanoLast.result.kind \in {"string", "running"}) =>
        LET alphabet == nanoLast.alphabet
            k == Len(alphabet)
            threshold == 256 - (256 % k)
        IN /\ k \in 2..256
           /\ \A b \in 0..255 :
                /\ (nanoidChar(b, alphabet) # <<>>) <=> (b < threshold)
                /\ b < threshold => nanoidChar(b, alphabet) = <<alphabet[(b % k) + 1]>>
           /\ \A j \in 1..k :
                Cardinality({b \in 0..255 : nanoidChar(b, alphabet) = <<alphabet[j]>>})
                    = 256 \div k
           /\ (nanoLast.random.first = "count" /\ nanoLast.result.kind = "string") =>
                \A i \in 1..Len(nanoLast.result.value) :
                    (i <= threshold /\ i <= nanoidStep(nanoLast.size, alphabet)) =>
                        nanoLast.result.value[i] = alphabet[((i - 1) % k) + 1]

\* A nanoid.custom call over the three-character alphabet 'abc' returned
\* two characters although the first byte drawn, 255, was rejected.
C19_Witness ==
    /\ nanoLast.kind = "result"
    /\ nanoLast.api = "custom"
    /\ nanoLast.alphabet = <<"a", "b", "c">>
    /\ nanoLast.random.first = "skip"
    /\ nanoLast.size = 2
    /\ nanoLast.result = Str(<<"a", "a">>)

\* C20: short(size), short.base58(size), short.base62(size) and
\* short.youtube() return a string of exactly the requested number of
\* characters (the default when omitted, 11 for youtube), all from the
\* chosen alphabet, for every output of the random source.
C20_ShortLengthAndCharset ==
    shortLast.kind = "result" =>
        /\ shortLast.result.kind = "string"
        /\ Len(shortLast.result.value) = shortLast.size
        /\ shortLast.api = "youtube" => shortLast.size = 11
        /\ \A i \in 1..Len(shortLast.result.value) :
             \E j \in 1..Len(shortLast.alphabet) :
                shortLast.result.value[i] = shortLast.alphabet[j]

\* short(100) drew all-zero bytes and returned 100 times the first
\* character of Base58.
C20_Witness ==
    /\ shortLast.kind = "result"
    /\ shortLast.api = "short"
    /\ shortLast.size = 100
    /\ \A i \in 1..Len(shortLast.bytes) : shortLast.bytes[i] = 0
    /\ shortLast.result = Str([i \in 1..100 |-> BASE58[1]])


\* The characters of Crockford Base32 in either case: digits and letters
\* without I, L, O, U.
CrockfordChars ==
    {DIGITS[i] : i \in 1..10}
    \cup ({UPPER[i] : i \in 1..26} \ {"I", "L", "O", "U"})
    \cup ({LOWER[i] : i \in 1..26} \ {"i", "l", "o", "u"})

\* The value of a Crockford Base32 string, most significant character first.
RECURSIVE CrockfordValue(_)
CrockfordValue(str) ==
    IF str = <<>> THEN <<>>
    ELSE BigShlOr(CrockfordValue(SubSeq(str, 1, Len(str) - 1)), 5,
                  IndexOf(CROCKFORD_BASE32, ToUpperCase(str[Len(str)])))

\* C21: ulid.isValid returns false for every string that contains an
\* excluded letter (I, L, O, U in either case) or a character outside the
\* alphabet, and gives the same answer for a string and its upper-case form;
\* ulid.timestamp of a string with such a character among its first ten
\* never returns the timestamp obtained by skipping that character.
C21_UlidDecodingRejects ==
    /\ ulidLast.kind = "isValid" =>
            /\ (\E i \in 1..Len(ulidLast.id) : ulidLast.id[i] \notin CrockfordChars)
                    => ulidLast.result = FALSE
            /\ ulidLast.result =
                    isValidUlid([i \in 1..Len(ulidLast.id) |-> ToUpperCase(ulidLast.id[i])])
    /\ ulidLast.kind = "timestamp" =>
            LET timePart == Slice(ulidLast.id, 0, 10)
            IN (\E i \in 1..Len(timePart) : timePart[i] \notin CrockfordChars) =>
                    ulidLast.result #
                        Date(CrockfordValue(SelectSeq(timePart,
                                LAMBDA c : c \in CrockfordChars)))


\* C22: decodeBase(str, alphabet) with an alphabet that satisfies the
\* alphabet invariant and a string holding a character outside it returns no
\* bytes and fails with an error whose code differs from INVALID_ALPHABET,
\* the code of the error raised for an alphabet with duplicates or fewer
\* than 2 characters.
C22_InvalidCharacterError ==
    codecLast.kind = "decoded" =>
        /\ ~AlphabetInvariant(codecLast.alphabet) =>
                codecLast.result = UidError("INVALID_ALPHABET")
        /\ ( /\ AlphabetInvariant(codecLast.alphabet)
             /\ \E i \in 1..Len(codecLast.str) :
                    IndexOf(codecLast.alphabet, codecLast.str[i]) = -1 ) =>
                /\ codecLast.result.kind = "error"
                /\ codecLast.result.code # "INVALID_ALPHABET"


\* C23: kernel.use(plugin) with a name that is already registered does not
\* invoke install, leaves list() and the registered APIs unchanged and
\* returns the kernel; and each name appears at most once in list().
C23_UseRegisteredIsNoOp ==
    /\ [](\A i, j \in 1..Len(list) : list[i] = list[j] => i = j)
    /\ [][( /\ kernelOps' = kernelOps + 1
            /\ kernelRet'.op = "use"
            /\ has(PluginObjects[kernelRet'.plugin].name) ) =>
                /\ hookCalls' = hookCalls
                /\ plugins' = plugins
                /\ kernelApis' = kernelApis
                /\ kernelRet'.result = "this"]_vars

\* The second plugin object named alpha was passed to use while the first
\* was registered: its install has not run and the API is the first one's.
C23_Witness ==
    /\ kernelRet = [op |-> "use", plugin |-> "alpha2", result |-> "this"]
    /\ plugins = <<"alpha">>
    /\ hookCalls["install"]["alpha2"] = 0
    /\ getApi("alpha") = "alpha"

C25_UnregisterRemovesPluginAndApi ==
    [][( /\ kernelOps' = kernelOps + 1
         /\ kernelRet'.op = "unregister" ) =>
            IF has(kernelRet'.name)
            THEN LET p == plugins[CHOOSE i \in 1..Len(plugins) :
                                    PluginObjects[plugins[i]].name = kernelRet'.name]
                 IN /\ kernelRet'.result = "true"
                    /\ hookCalls' = Called("onDestroy", p)
                    /\ \A i \in 1..Len(plugins') :
                            PluginObjects[plugins'[i]].name # kernelRet'.name
                    /\ kernelApis'[PluginObjects[p].api] # p
            ELSE /\ kernelRet'.result = "false"
                 /\ hookCalls' = hookCalls
                 /\ plugins' = plugins
                 /\ kernelApis' = kernelApis]_vars

\* C26: when kernel.destroy() resolves, onDestroy has been called exactly
\* once since the destroy call for every plugin that was registered when
\* destroy was called, list() is empty and getApi returns undefined for
\* every name, whatever use and unregister calls ran during the awaits.
C26_DestroyCallsEachHookOnce ==
    (kernelRet # Null /\ kernelRet.op = "destroy" /\ kernelRet.result = "resolved") =>
        /\ \A p \in kernelRet.registered :
                hookCalls["onDestroy"][p] = kernelRet.before[p] + 1
        /\ list = <<>>
        /\ \A name \in KernelNames : getApi(name) = "undefined"

\* C29: every registered plugin's declared dependencies are themselves
\* registered, after any sequence of use, unregister and destroy calls.
C29_DependenciesRegistered ==
    \A i \in 1..Len(plugins) :
        \A dep \in PluginObjects[plugins[i]].dependencies : has(dep)

\* C30: when plugin.install throws during kernel.use(plugin), use rethrows
\* after calling plugin.onError once, and the kernel is as before the call:
\* the plugin is not in list() and the APIs are those registered before.
C30_FailedInstallLeavesNoTrace ==
    [][( /\ kernelOps' = kernelOps + 1
         /\ kernelRet'.op = "use"
         /\ kernelRet'.result = "throws install" ) =>
            /\ hookCalls'["onError"] =
                    [hookCalls["onError"] EXCEPT ![kernelRet'.plugin] = @ + 1]
            /\ hookCalls'["onDestroy"] = hookCalls["onDestroy"]
            /\ plugins' = plugins
            /\ \A i \in 1..Len(plugins') : plugins'[i] # kernelRet'.plugin
            /\ kernelApis' = kernelApis]_vars


\* C27: when ulid.monotonic() is called in the same millisecond as the
\* previous monotonic call, the 80-bit random part it encodes is the
\* previous call's random part plus one (big-endian, with carry); the
\* random source decides the random part only when the millisecond differs.
C27_MonotonicIncrementsPrevious ==
    ( /\ ulidLast.kind = "monotonic"
      /\ ulidPrev.kind = "monotonic"
      /\ ulidPrev.timestamp = ulidLast.timestamp ) =>
        ulidLast.random = incrementBytes(ulidPrev.random, Len(ulidPrev.random) - 1, 1)


\* C28: for every alphabet that validateAlphabet accepts, alphabets longer
\* than 256 characters included, and every size in 1..256, a call of
\* generateNanoid returns, given a random source that keeps delivering
\* every byte value.
C28_GenerateNanoidTerminates ==
    (nanoLast.kind = "loopArgs") ~> (nanoLast.kind = "result")

====
